---- MODULE Spec2Model ----
(***************************************************************************)
(* A model of ostr's Str (src/lib.rs): a two-word owned immutable string   *)
(* (data pointer + byte length) over the global allocator.                 *)
(*                                                                         *)
(* The heap is an arena of blocks; a pointer is the index of a block and   *)
(* NULL is 0.  A block records the layout of the alloc request that made   *)
(* it and its bytes; a fresh block is uninitialised.  Every operation of   *)
(* Str is one action; the allocator requests it issues are left in reqs    *)
(* and the undefined behaviour it commits is accumulated in ub.            *)
(***************************************************************************)
EXTENDS Integers, Sequences, FiniteSets, TLC

\* ------------------------------------------------------------------ bounds
MaxInst == 2
MaxChars == 1
MaxChain == 4
HashMod == 5

\* --------------------------------------------------------------- constants
NULL == 0
IsizeMax == 2147483647
Uninit == -1

VARIABLES
    heap,       \* the allocator's arena: block index -> block
    inst,       \* the live Str values: slot -> [data, size]
    orig,       \* slot -> the &str the value was built from (code points)
    op,         \* the last operation and what it returned
    reqs,       \* the allocator requests issued by the last operation
    ub,         \* the kinds of undefined behaviour committed so far
    status,     \* "running", "panicked" or "crashed"
    set,        \* the slots owned by the HashSet<Str>
    seen,       \* the byte contents ever passed to HashSet::insert
    gen,        \* slot -> generation in a chain of clones (1 = built by new)
    parent      \* slot -> the slot it was cloned from (0 = built by new)

vars == <<heap, inst, orig, op, reqs, ub, status, set, seen, gen, parent>>

\* ------------------------------------------------------------- &str inputs
\* A &str is modelled by its code points; its bytes are its UTF-8 encoding.
Chars == {97, 19990}

Inputs == UNION {[1..n -> Chars] : n \in 0..MaxChars}

Utf8(c) ==
    IF c < 128 THEN <<c>>
    ELSE IF c < 2048 THEN <<192 + (c \div 64), 128 + (c % 64)>>
    ELSE <<224 + (c \div 4096), 128 + ((c \div 64) % 64), 128 + (c % 64)>>

RECURSIVE AsBytes(_)
AsBytes(s) == IF s = <<>> THEN <<>> ELSE Utf8(Head(s)) \o AsBytes(Tail(s))

\* --------------------------------------------------------------- allocator
Free == [alloc |-> FALSE, size |-> 0, align |-> 0, bytes |-> <<>>]

EmptyHeap(n) == [p \in 1..n |-> Free]

FreeAddrs(h) == {p \in DOMAIN h : ~h[p].alloc}

LayoutErr == [size |-> -1, align |-> 0]

Layout(size) ==
    IF size <= IsizeMax THEN [size |-> size, align |-> 1] ELSE LayoutErr

AllocReq(p, l) == [kind |-> "alloc", ptr |-> p, size |-> l.size, align |-> l.align]

DeallocReq(p, l) == [kind |-> "dealloc", ptr |-> p, size |-> l.size, align |-> l.align]

\* The arena after the allocator has served request r.
Serve(h, r) ==
    IF r.ptr \notin DOMAIN h THEN h
    ELSE IF r.kind = "alloc"
    THEN [h EXCEPT ![r.ptr] = [alloc |-> TRUE, size |-> r.size, align |-> r.align,
                               bytes |-> [k \in 1..r.size |-> Uninit]]]
    ELSE [h EXCEPT ![r.ptr] = Free]

RECURSIVE ServeAll(_, _)
ServeAll(h, rs) == IF rs = <<>> THEN h ELSE ServeAll(Serve(h, Head(rs)), Tail(rs))

\* The undefined behaviour of request r in arena h.
ReqUB(h, r) ==
    IF r.kind = "alloc"
    THEN (IF r.size = 0 THEN {"zero_size_alloc"} ELSE {})
    ELSE IF r.ptr = NULL THEN {"null_dealloc"}
    ELSE IF r.ptr \notin DOMAIN h \/ ~h[r.ptr].alloc THEN {"double_free"}
    ELSE IF h[r.ptr].size # r.size \/ h[r.ptr].align # r.align
    THEN {"layout_mismatch"}
    ELSE {}

\* ------------------------------------------------------------------ memory
\* The undefined behaviour of touching n bytes at p.
AccessUB(h, p, n) ==
    IF p = NULL THEN {"null_deref"}
    ELSE IF p \notin DOMAIN h \/ ~h[p].alloc THEN {"use_after_free"}
    ELSE IF n > h[p].size THEN {"out_of_bounds"}
    ELSE {}

\* The n bytes at p; what an invalid read yields is unspecified.
ReadBytes(h, p, n) ==
    IF AccessUB(h, p, n) = {} THEN SubSeq(h[p].bytes, 1, n)
    ELSE [k \in 1..n |-> Uninit]

WriteBytes(h, p, bytes, n) ==
    IF AccessUB(h, p, n) # {} THEN h
    ELSE [h EXCEPT ![p].bytes = [k \in 1..Len(@) |-> IF k <= n THEN bytes[k] ELSE @[k]]]

\* --------------------------------------------------------------------- Str
MkStrWithCapacity(data, size) == [data |-> data, size |-> size, cap |-> size]

MkStr(data, size) == [data |-> data, size |-> size]

\* Words of a value: a thin pointer and a usize are one word each, and a
\* native &str is a pointer and a length.
FieldWords(f) == 1

RECURSIVE SumWords(_)
SumWords(fs) ==
    IF fs = {} THEN 0
    ELSE LET f == CHOOSE x \in fs : TRUE IN FieldWords(f) + SumWords(fs \ {f})

SizeOfStr(x) == SumWords(DOMAIN x)

SizeOfRefStr == SumWords({"ptr", "len"})

NewSizeChars(s) == Len(s)

NewSize(s) == Len(AsBytes(s))

NewReqsAlways(size, p) == <<AllocReq(p, Layout(size))>>

NewReqs(size, p) == IF size = 0 THEN <<>> ELSE <<AllocReq(p, Layout(size))>>

NewData(size, p) == IF size = 0 THEN NULL ELSE p

StrLen(x) == x.size

IsEmpty(x) == x.size = 0

BorrowUB(h, x) == IF x.size = 0 THEN {} ELSE AccessUB(h, x.data, x.size)

Borrow(h, x) == IF x.size = 0 THEN <<>> ELSE ReadBytes(h, x.data, x.size)

AsRef(h, x) == Borrow(h, x)

StrEqByAddress(h, x, y) == x.data = y.data /\ x.size = y.size

StrEq(h, x, y) == AsRef(h, x) = AsRef(h, y)

\* A Hasher: a state folded over the bytes written to it.
RECURSIVE HWrite(_, _)
HWrite(st, bytes) ==
    IF bytes = <<>> THEN st
    ELSE HWrite((st * 31 + Head(bytes)) % HashMod, Tail(bytes))

\* <str as Hash>::hash: the bytes, then 0xff.
HashStr(bytes) == HWrite(HWrite(0, bytes), <<255>>)

StrHashByAddress(h, x) == HWrite(HWrite(0, <<x.data>>), <<x.size>>)

StrHash(h, x) == HashStr(AsRef(h, x))

DisplayOut(h, x) == AsRef(h, x)

DropLayoutGrown(x) == Layout(x.size + 1)

DropLayout(x) == Layout(x.size)

DropReqsLeak(x) == <<>>

DropReqs(x) == IF x.size = 0 THEN <<>> ELSE <<DeallocReq(x.data, DropLayout(x))>>

CloneReqs(x, p) == IF x.size = 0 THEN NewReqs(0, p) ELSE <<AllocReq(p, Layout(x.size))>>

CloneCopyReversed(h, src, dst, n) == WriteBytes(h, src, ReadBytes(h, dst, n), n)

\* ptr::copy(self.data, data, size)
CloneCopy(h, src, dst, n) == WriteBytes(h, dst, ReadBytes(h, src, n), n)

\* ------------------------------------------------------------ bookkeeping
Op(name, a, b, ptr, int, bool, bytes) ==
    [name |-> name, a |-> a, b |-> b, ptr |-> ptr, int |-> int, bool |-> bool,
     bytes |-> bytes]

ReqsUB(h, rs) == UNION {ReqUB(h, rs[n]) : n \in DOMAIN rs}

HasSlot == \E k \in 1..Len(heap) : k \notin DOMAIN inst

FreshSlot ==
    CHOOSE k \in 1..Len(heap) :
        k \notin DOMAIN inst /\ \A j \in 1..(k - 1) : j \in DOMAIN inst

Remove(f, i) == [j \in DOMAIN f \ {i} |-> f[j]]

Running == status = "running"

\* ---------------------------------------------------------------- actions
\* Each Core action constrains heap, inst, orig, op, reqs, ub and status; p is
\* what the allocator returns to the operation's alloc call, if it makes one.

\* Str::new(s), under the name it was called by ("new" or "from").
NewCore(s, p, name) ==
    LET size == NewSize(s)
        rs == NewReqs(size, p)
        h1 == ServeAll(heap, rs)
        u == ReqsUB(heap, rs) \cup (IF size = 0 THEN {} ELSE AccessUB(h1, p, size))
        k == FreshSlot
    IN  /\ Running
        /\ HasSlot
        /\ IF size # 0 /\ Layout(size) = LayoutErr
           THEN /\ status' = "panicked"
                /\ op' = Op(name, 0, 0, NULL, size, FALSE, <<>>)
                /\ reqs' = <<>>
                /\ UNCHANGED <<heap, inst, orig, ub>>
           ELSE /\ reqs' = rs
                /\ ub' = ub \cup u
                /\ heap' = IF size = 0 THEN h1 ELSE WriteBytes(h1, p, AsBytes(s), size)
                /\ \/ /\ status' = status
                      /\ inst' = inst @@ (k :> MkStr(NewData(size, p), size))
                      /\ orig' = orig @@ (k :> s)
                      /\ op' = Op(name, k, 0, NewData(size, p), size, FALSE, <<>>)
                   \/ /\ "null_deref" \in u
                      /\ status' = "crashed"
                      /\ op' = Op(name, 0, 0, NULL, size, FALSE, <<>>)
                      /\ UNCHANGED <<inst, orig>>

CloneShared(i, p) ==
    /\ Running
    /\ i \in DOMAIN inst
    /\ HasSlot
    /\ inst' = inst @@ (FreshSlot :> inst[i])
    /\ orig' = orig @@ (FreshSlot :> orig[i])
    /\ op' = Op("clone", FreshSlot, i, inst[i].data, inst[i].size, FALSE, <<>>)
    /\ reqs' = <<>>
    /\ UNCHANGED <<heap, ub, status>>

\* <Str as Clone>::clone(&inst[i])
CloneCore(i, p) ==
    /\ Running
    /\ i \in DOMAIN inst
    /\ HasSlot
    /\ LET x == inst[i]
           size == x.size
           rs == CloneReqs(x, p)
           h1 == ServeAll(heap, rs)
           u == ReqsUB(heap, rs) \cup
                (IF size = 0 THEN {}
                 ELSE AccessUB(h1, x.data, size) \cup AccessUB(h1, p, size))
           k == FreshSlot
       IN  IF size # 0 /\ Layout(size) = LayoutErr
           THEN /\ status' = "panicked"
                /\ op' = Op("clone", 0, i, NULL, size, FALSE, <<>>)
                /\ reqs' = <<>>
                /\ UNCHANGED <<heap, inst, orig, ub>>
           ELSE /\ reqs' = rs
                /\ ub' = ub \cup u
                /\ heap' = IF size = 0 THEN h1 ELSE CloneCopy(h1, x.data, p, size)
                /\ \/ /\ status' = status
                      /\ inst' = inst @@ (k :> MkStr(NewData(size, p), size))
                      /\ orig' = orig @@ (k :> orig[i])
                      /\ op' = Op("clone", k, i, NewData(size, p), size, FALSE, <<>>)
                   \/ /\ "null_deref" \in u
                      /\ status' = "crashed"
                      /\ op' = Op("clone", 0, i, NULL, size, FALSE, <<>>)
                      /\ UNCHANGED <<inst, orig>>

\* <Str as Drop>::drop(&mut inst[i]), as inst[i] goes out of scope in the
\* operation `name`, which returns `bool`.
DropAs(i, name, bool) ==
    /\ Running
    /\ i \in DOMAIN inst
    /\ LET x == inst[i]
           rs == DropReqs(x)
       IN  IF x.size # 0 /\ Layout(x.size) = LayoutErr
           THEN /\ status' = "panicked"
                /\ op' = Op(name, i, 0, x.data, x.size, bool, <<>>)
                /\ reqs' = <<>>
                /\ UNCHANGED <<heap, inst, orig, ub>>
           ELSE /\ reqs' = rs
                /\ ub' = ub \cup ReqsUB(heap, rs)
                /\ heap' = ServeAll(heap, rs)
                /\ inst' = Remove(inst, i)
                /\ orig' = Remove(orig, i)
                /\ op' = Op(name, i, 0, x.data, x.size, bool, AsBytes(orig[i]))
                /\ status' = status

DropCore(i) == DropAs(i, "drop", FALSE)

\* A read-only operation: it returns, allocates nothing and changes no value.
Query(name, i, j, u, int, bool, bytes) ==
    /\ Running
    /\ op' = Op(name, i, j, NULL, int, bool, bytes)
    /\ reqs' = <<>>
    /\ ub' = ub \cup u
    /\ UNCHANGED <<heap, inst, orig, status>>

NoSet == UNCHANGED <<set, seen>>

NoChain == UNCHANGED <<gen, parent>>

New(s) == (\E p \in FreeAddrs(heap) : NewCore(s, p, "new")) /\ NoSet /\ NoChain

From(s) == (\E p \in FreeAddrs(heap) : NewCore(s, p, "from")) /\ NoSet /\ NoChain

Clone(i) == (\E p \in FreeAddrs(heap) : CloneCore(i, p)) /\ NoSet /\ NoChain

Drop(i) == i \notin set /\ DropCore(i) /\ NoSet /\ NoChain

LenOp(i) ==
    /\ i \in DOMAIN inst
    /\ Query("len", i, 0, {}, StrLen(inst[i]), FALSE, <<>>)
    /\ NoSet /\ NoChain

IsEmptyOp(i) ==
    /\ i \in DOMAIN inst
    /\ Query("is_empty", i, 0, {}, 0, IsEmpty(inst[i]), <<>>)
    /\ NoSet /\ NoChain

BorrowOp(i) ==
    /\ i \in DOMAIN inst
    /\ Query("borrow", i, 0, BorrowUB(heap, inst[i]), 0, FALSE, Borrow(heap, inst[i]))
    /\ NoSet /\ NoChain

AsRefOp(i) ==
    /\ i \in DOMAIN inst
    /\ Query("as_ref", i, 0, BorrowUB(heap, inst[i]), 0, FALSE, AsRef(heap, inst[i]))
    /\ NoSet /\ NoChain

EqOp(i, j) ==
    /\ i \in DOMAIN inst
    /\ j \in DOMAIN inst
    /\ Query("eq", i, j, BorrowUB(heap, inst[i]) \cup BorrowUB(heap, inst[j]), 0,
             StrEq(heap, inst[i], inst[j]), <<>>)
    /\ NoSet /\ NoChain

HashOp(i) ==
    /\ i \in DOMAIN inst
    /\ Query("hash", i, 0, BorrowUB(heap, inst[i]), StrHash(heap, inst[i]), FALSE, <<>>)
    /\ NoSet /\ NoChain

DisplayOp(i) ==
    /\ i \in DOMAIN inst
    /\ Query("display", i, 0, BorrowUB(heap, inst[i]), 0, FALSE, DisplayOut(heap, inst[i]))
    /\ NoSet /\ NoChain

\* -------------------------------------------------------- specification
InitWith(n) ==
    /\ heap = EmptyHeap(n)
    /\ inst = <<>>
    /\ orig = <<>>
    /\ op = Op("init", 0, 0, NULL, 0, FALSE, <<>>)
    /\ reqs = <<>>
    /\ ub = {}
    /\ status = "running"
    /\ set = {}
    /\ seen = {}
    /\ gen = <<>>
    /\ parent = <<>>

Init == InitWith(MaxInst)

Next ==
    \/ \E s \in Inputs : New(s)
    \/ \E s \in Inputs : From(s)
    \/ \E i \in DOMAIN inst : Clone(i)
    \/ \E i \in DOMAIN inst : Drop(i)
    \/ \E i \in DOMAIN inst : LenOp(i)
    \/ \E i \in DOMAIN inst : IsEmptyOp(i)
    \/ \E i \in DOMAIN inst : BorrowOp(i)
    \/ \E i \in DOMAIN inst : AsRefOp(i)
    \/ \E i, j \in DOMAIN inst : EqOp(i, j)
    \/ \E i \in DOMAIN inst : HashOp(i)
    \/ \E i \in DOMAIN inst : DisplayOp(i)

Spec == Init /\ [][Next]_vars

\* ------------------------------------------------------- chains of clones
\* test_multiple_clones: one value built by new, then clones of clones, none
\* dropped; gen and parent record each value's place in its chain.
Grown(f, v) == [k \in DOMAIN inst' |-> IF k \in DOMAIN f THEN f[k] ELSE v]

ChainNew(s) ==
    /\ DOMAIN inst = {}
    /\ \E p \in FreeAddrs(heap) : NewCore(s, p, "new")
    /\ gen' = Grown(gen, 1)
    /\ parent' = Grown(parent, 0)
    /\ NoSet

ChainClone(i) ==
    /\ i \in DOMAIN inst
    /\ gen[i] < MaxChain
    /\ \E p \in FreeAddrs(heap) : CloneCore(i, p)
    /\ gen' = Grown(gen, gen[i] + 1)
    /\ parent' = Grown(parent, i)
    /\ NoSet

InitChain == InitWith(MaxChain)

NextChain ==
    \/ \E s \in Inputs : ChainNew(s)
    \/ \E i \in DOMAIN inst : ChainClone(i)

SpecChain == InitChain /\ [][NextChain]_vars

\* ------------------------------------------------------------ HashSet<Str>
\* test_hash: values are built and moved into a HashSet<Str>, which is then
\* looked up by &str.  The set keeps the values it owns in `set`.
SetNew(s) ==
    /\ DOMAIN inst = set
    /\ \E p \in FreeAddrs(heap) : NewCore(s, p, "new")
    /\ NoSet
    /\ NoChain

\* HashSet::insert(inst[i]): a stored value with the same hash that is equal
\* to inst[i] makes it a duplicate, which is dropped.
SetFinds(h, x) ==
    \E j \in set : StrHash(h, inst[j]) = StrHash(h, x) /\ StrEq(h, inst[j], x)

SetInsert(i) ==
    /\ i \in DOMAIN inst \ set
    /\ seen' = seen \cup {AsBytes(orig[i])}
    /\ NoChain
    /\ IF SetFinds(heap, inst[i])
       THEN /\ DropAs(i, "insert", FALSE)
            /\ set' = set
       ELSE /\ Running
            /\ set' = set \cup {i}
            /\ op' = Op("insert", i, 0, inst[i].data, inst[i].size, TRUE, AsBytes(orig[i]))
            /\ reqs' = <<>>
            /\ ub' = ub \cup UNION {BorrowUB(heap, inst[j]) : j \in set \cup {i}}
            /\ UNCHANGED <<heap, inst, orig, status>>

\* HashSet::contains(v) for a &str v: hashes v and compares it with what the
\* stored values borrow to.
SetContains(v) ==
    /\ Query("contains", 0, 0, UNION {BorrowUB(heap, inst[j]) : j \in set},
             Cardinality(set),
             \E j \in set : /\ StrHash(heap, inst[j]) = HashStr(AsBytes(v))
                            /\ Borrow(heap, inst[j]) = AsBytes(v),
             AsBytes(v))
    /\ NoSet
    /\ NoChain

NextSet ==
    \/ \E s \in Inputs : SetNew(s)
    \/ \E i \in DOMAIN inst : SetInsert(i)
    \/ \E v \in Inputs : SetContains(v)

SpecSet == Init /\ [][NextSet]_vars

\* ------------------------------------------------------ allocation failure
\* alloc may return null at any call; new and clone then run on with it.
NewOOM(s) == NewSize(s) # 0 /\ NewCore(s, NULL, "new") /\ NoSet /\ NoChain

CloneOOM(i) ==
    /\ i \in DOMAIN inst
    /\ inst[i].size # 0
    /\ CloneCore(i, NULL)
    /\ NoSet
    /\ NoChain

NextOOM ==
    \/ \E s \in Inputs : New(s)
    \/ \E i \in DOMAIN inst : Clone(i)
    \/ \E i \in DOMAIN inst : Drop(i)
    \/ \E s \in Inputs : NewOOM(s)
    \/ \E i \in DOMAIN inst : CloneOOM(i)

SpecOOM == Init /\ [][NextOOM]_vars

\* ----------------------------------------------------------------- claims
Live == DOMAIN inst

Content(i) == AsBytes(orig[i])

Allocated == {p \in DOMAIN heap : heap[p].alloc}

\* C1: a value built from s has len() equal to the byte length of s (not its
\* count of code points) and borrows / as_refs to the bytes of s exactly, and
\* borrow and as_ref return those bytes when called.
RoundTrip ==
    /\ \A i \in Live :
          /\ StrLen(inst[i]) = Len(Content(i))
          /\ Borrow(heap, inst[i]) = Content(i)
          /\ AsRef(heap, inst[i]) = Content(i)
    /\ op.name \in {"borrow", "as_ref"} => op.bytes = Content(op.a)
    /\ op.name = "len" => op.int = Len(Content(op.a))

\* A multi-byte string has been built and borrowed back.
RoundTripWitness ==
    /\ op.name = "borrow"
    /\ op.a \in Live
    /\ Len(orig[op.a]) < StrLen(inst[op.a])
    /\ op.bytes = Content(op.a)

\* C2: two values are equal iff their borrowed bytes are equal, which is iff
\* the strings they were built from are equal, whatever their addresses; equal
\* values hash alike; and the hash of a value is the hash of the native string
\* it was built from.
EqHashConsistent ==
    /\ \A i, j \in Live :
          /\ StrEq(heap, inst[i], inst[j]) <=> (Borrow(heap, inst[i]) = Borrow(heap, inst[j]))
          /\ StrEq(heap, inst[i], inst[j]) <=> (Content(i) = Content(j))
          /\ StrEq(heap, inst[i], inst[j]) => StrHash(heap, inst[i]) = StrHash(heap, inst[j])
    /\ \A i \in Live : StrHash(heap, inst[i]) = HashStr(Content(i))
    /\ op.name = "eq" => (op.bool <=> (Content(op.a) = Content(op.b)))
    /\ op.name = "hash" => op.int = HashStr(Content(op.a))

\* Two values with the same bytes at different addresses have compared equal.
EqHashWitness ==
    /\ op.name = "eq"
    /\ op.bool
    /\ op.a # op.b
    /\ inst[op.a].size > 0
    /\ inst[op.a].data # inst[op.b].data

\* C4: a value built from "" has len() 0, is_empty() and borrows to ""; no
\* operation ever asks the allocator for zero bytes, dereferences the null
\* pointer or passes it to dealloc.
EmptyHandled ==
    /\ \A i \in Live :
          Content(i) = <<>> =>
              /\ StrLen(inst[i]) = 0
              /\ IsEmpty(inst[i])
              /\ Borrow(heap, inst[i]) = <<>>
    /\ \A n \in DOMAIN reqs : reqs[n].size > 0 /\ reqs[n].ptr # NULL
    /\ ub \cap {"zero_size_alloc", "null_deref", "null_dealloc"} = {}
    /\ op.name = "is_empty" => (op.bool <=> (Content(op.a) = <<>>))

\* An empty value has been cloned, and both empty values are live.
EmptyWitness ==
    /\ op.name = "clone"
    /\ op.a \in Live
    /\ op.b \in Live
    /\ Content(op.a) = <<>>
    /\ inst[op.a].size = 0

\* C7: a Str is two machine words, as a native &str is: a data pointer and a
\* length and no other field.
TwoWords ==
    \A i \in Live :
        /\ SizeOfStr(inst[i]) = SizeOfRefStr
        /\ DOMAIN inst[i] = {"data", "size"}

\* A non-empty value is live.
TwoWordsWitness == \E i \in Live : inst[i].size > 0 /\ SizeOfStr(inst[i]) = 2

\* C8: dropping an empty value issues no request; dropping a non-empty one
\* issues exactly one dealloc, for its data pointer, with the size and the
\* alignment (size bytes, alignment 1) of the alloc that made the buffer.
DropMatchesAlloc ==
    /\ "layout_mismatch" \notin ub
    /\ op.name = "drop" =>
          IF op.int = 0 THEN reqs = <<>>
          ELSE reqs = <<[kind |-> "dealloc", ptr |-> op.ptr, size |-> op.int, align |-> 1]>>
    /\ \A p \in Allocated : heap[p].align = 1 /\ heap[p].size = Len(heap[p].bytes)

\* A non-empty value has been dropped.
DropWitness == op.name = "drop" /\ op.int > 0 /\ Len(reqs) = 1 /\ op.ptr \notin Allocated

\* A step keeps the fields and the bytes of the values live across it.
FrameStep ==
    \A i \in DOMAIN inst \cap DOMAIN inst' :
        /\ inst'[i] = inst[i]
        /\ Borrow(heap', inst'[i]) = Borrow(heap, inst[i])

\* C9: no operation changes the size or the bytes of a value other than the
\* one it creates or drops: clone leaves its source as it was, and a drop
\* leaves every other value readable with the bytes it was built from.
Frame == [][FrameStep]_vars

\* A value has been dropped while an equal one stays live and readable.
FrameWitness ==
    /\ op.name = "drop"
    /\ op.int > 0
    /\ \E i \in Live : Borrow(heap, inst[i]) = op.bytes

\* C10: the allocated blocks are exactly the data pointers of the live
\* non-empty values, each of its owner's size and owned by one value; nothing
\* is freed twice or read after being freed; with no value live nothing is
\* allocated.
OneBlockPerValue ==
    /\ Allocated = {inst[i].data : i \in {j \in Live : inst[j].size > 0}}
    /\ \A i \in Live : inst[i].size > 0 => heap[inst[i].data].size = inst[i].size
    /\ \A i, j \in Live : inst[i].size > 0 /\ inst[i].data = inst[j].data => i = j
    /\ ub \cap {"double_free", "use_after_free", "out_of_bounds"} = {}
    /\ Live = {} => Allocated = {}

\* Every value has been dropped, the last of them a non-empty one.
NoLeakWitness == op.name = "drop" /\ op.int > 0 /\ Live = {} /\ Allocated = {}

\* C3: a clone has the size and the bytes of the value it was cloned from,
\* and of the string the chain began with; a non-empty clone has a block of
\* its own, so its data pointer differs from its source's; an empty clone is
\* a fresh empty value and nothing is allocated for it.  It holds for every
\* generation of a chain s1 -> s2 -> s3 -> s4.
CloneIndependent ==
    \A i \in Live :
        /\ Borrow(heap, inst[i]) = Content(i)
        /\ parent[i] # 0 =>
              LET j == parent[i] IN
              /\ gen[i] = gen[j] + 1
              /\ inst[i].size = inst[j].size
              /\ Borrow(heap, inst[i]) = Borrow(heap, inst[j])
              /\ StrEq(heap, inst[i], inst[j])
              /\ inst[i].size > 0 =>
                    /\ inst[i].data # inst[j].data
                    /\ inst[i].data \in Allocated
                    /\ inst[j].data \in Allocated
              /\ inst[i].size = 0 => inst[i].data = NULL /\ Allocated = {}

\* A fourth generation of a non-empty string is live, with its whole chain.
CloneChainWitness ==
    \E i \in Live :
        /\ gen[i] = 4
        /\ inst[i].size > 1
        /\ gen[parent[i]] = 3
        /\ gen[parent[parent[i]]] = 2
        /\ Cardinality({inst[k].data : k \in Live}) = 4

\* C5: when alloc returns null, new and clone terminate the process: nothing
\* is copied through the null pointer and no value is returned.
AllocFailureFatal ==
    (\E n \in DOMAIN reqs : reqs[n].kind = "alloc" /\ reqs[n].ptr = NULL) =>
        /\ status # "running"
        /\ "null_deref" \notin ub
        /\ op.a = 0

\* C6: the set holds one value per distinct content inserted; insert reports
\* a duplicate by returning false and leaves the size as it was, and grows
\* the set by one otherwise; a lookup by &str finds an entry iff a stored
\* value has that content, and builds no Str.
SetByContent ==
    /\ Cardinality(set) = Cardinality(seen)
    /\ {Content(j) : j \in set} = seen
    /\ op.name = "insert" => (op.bool <=> op.a \in set)
    /\ op.name = "contains" =>
          /\ op.bool <=> (op.bytes \in {Content(j) : j \in set})
          /\ op.int = Cardinality(seen)
          /\ reqs = <<>>

\* A duplicate of a stored non-empty value has been refused.
SetDuplicateWitness ==
    /\ op.name = "insert"
    /\ ~op.bool
    /\ op.int > 0
    /\ op.bytes \in seen
    /\ Cardinality(set) = 1

====
